---- MODULE Spec2Model ----
(***************************************************************************)
(* domain-stream.py: a certificate-transparency feed is turned into domain *)
(* names (CertStreamThread), admitted once each into a bounded queue       *)
(* (DomainQueue), withdrawn by a pool of DomainWorker threads that match   *)
(* them against KEYWORD_DOMAINS, optionally resolve them and log the       *)
(* findings; UpdateThread samples the counters and main() supervises.      *)
(*                                                                         *)
(* Strings are sequences of one-character strings, so that substring       *)
(* search, startswith, slicing and "%s" formatting are computed as Python  *)
(* computes them.                                                          *)
(***************************************************************************)
EXTENDS Integers, Sequences, FiniteSets, TLC

(* ------------------------------------------------------------------ *)
(* Bounds of the model and constants of the program                   *)
(* ------------------------------------------------------------------ *)

\* config.yaml: queue_size
QUEUE_SIZE == 2

\* config.yaml: rate_limit_sleep, in clock ticks
RATE_LIMIT_SLEEP == 1

\* the value of -t/--threads on the command line of the modelled run
ThreadsArg == 2

\* the clock stops advancing at MaxTime
MaxTime == 1

\* number of feed messages delivered to CertStreamThread.process
MaxEvents == 2

\* number of distinct names in the all_domains of one certificate
MaxNames == 2

\* length of the names drawn for the matcher
MaxLen == 5

\* the largest number drawn for -t/--threads
MaxThreadsOption == 3

\* parser.add_argument("-t", "--threads", ..., default=20)
THREADS_DEFAULT == 20

(* ------------------------------------------------------------------ *)
(* The inputs: seed keywords, the names the feed can carry, the IPs   *)
(* ------------------------------------------------------------------ *)

\* input_domains.txt, one keyword per line
INPUT_DOMAINS == << <<"k">> >>

WildKC == <<"*", ".", "k", ".", "c">>
PlainKC == <<"k", ".", "c">>
PlainXC == <<"x", ".", "c">>

\* names a certificate_update can list in all_domains
FeedDomains == {WildKC, PlainKC, PlainXC}

\* addresses socket.gethostbyname can return
IPs == {<<"1">>}

NoName == <<>>

\* the characters of the names drawn for the matcher
Letters == {"k", "x", ".", "-"}

\* every name of up to MaxLen characters a certificate can list
Names == UNION {[1..n -> Letters] : n \in 1..MaxLen}

(* ------------------------------------------------------------------ *)
(* String functions                                                   *)
(* ------------------------------------------------------------------ *)

\* Python's `keyword in domain` on str
Contains(domain, keyword) ==
    \E i \in 0..(Len(domain) - Len(keyword)) :
        SubSeq(domain, i + 1, i + Len(keyword)) = keyword

\* domain.startswith('*.')
StartsWithWildcard(domain) ==
    /\ Len(domain) >= 2
    /\ domain[1] = "*"
    /\ domain[2] = "."

\* domain[2:] if domain.startswith('*.') else domain
StripWildcard(domain) ==
    IF StartsWithWildcard(domain) THEN SubSeq(domain, 3, Len(domain)) ELSE domain

\* get_permutations with ".%s." commented out instead of "%s."
get_permutations_without_dotted(domain) ==
    << domain \o <<"-">>,
       <<"-">> \o domain \o <<"-">>,
       <<"-">> \o domain,
       domain \o <<".">>,
       <<".">> \o domain,
       <<".">> \o domain \o <<"-">>,
       <<"-">> \o domain,
       <<"-">> \o domain \o <<".">> >>

\* get_permutations(domain): the list of nine patterns, duplicates included
get_permutations(domain) ==
    << domain \o <<"-">>,
       <<"-">> \o domain \o <<"-">>,
       <<"-">> \o domain,
       <<".">> \o domain \o <<".">>,
       <<".">> \o domain,
       <<".">> \o domain \o <<"-">>,
       <<"-">> \o domain,
       <<"-">> \o domain \o <<".">>,
       <<".">> \o domain \o <<".">> >>

RECURSIVE ExpandKeywords(_)
\* for domain in INPUT_DOMAINS: KEYWORD_DOMAINS += get_permutations(domain)
ExpandKeywords(inputs) ==
    IF inputs = <<>> THEN <<>>
    ELSE get_permutations(Head(inputs)) \o ExpandKeywords(Tail(inputs))

\* main(): KEYWORD_DOMAINS after the keywords_only branch
BuildKeywords(keywords_only) ==
    IF keywords_only THEN ExpandKeywords(INPUT_DOMAINS) ELSE INPUT_DOMAINS

\* main(): "Defaulting to 5 threads": if not ARGS.threads: ARGS.threads = 5
DefaultThreads(threads) == IF threads = 0 THEN 5 ELSE threads

\* the matcher with the operands of `in` exchanged: `domain in keyword`
keyword_contains_domain(keywords, domain) ==
    \E i \in 1..Len(keywords) : Contains(keywords[i], domain)

\* DomainWorker.__domain_contains_any_keywords
domain_contains_any_keywords(keywords, domain) ==
    \E i \in 1..Len(keywords) : Contains(domain, keywords[i])

\* the line __check_resolution hands to __log on success: domain + "," + ip
DomainIpLine(domain, ip) == domain \o <<",">> \o ip

(* ------------------------------------------------------------------ *)
(* State                                                              *)
(* ------------------------------------------------------------------ *)

VARIABLES
    ARGS,              \* the parsed command line (argparse.Namespace)
    KEYWORD_DOMAINS,   \* the watch-set, a list of patterns
    FOUND_COUNT,       \* global found counter
    main_pc,           \* main(): ("parse",) "setup", "try", "paused", "except", "exited"
    started,           \* whether [t.start() for t in threads] has run
    now,               \* time.monotonic(), in ticks
    checked_domains,   \* DomainQueue.checked_domains (the SeenSet), a list
    queue,             \* the buffer of queue.Queue
    unfinished_tasks,  \* queue.Queue.unfinished_tasks
    lock,              \* DomainQueue.lock: the set of threads holding it
    rate_limited,      \* DomainQueue.rate_limited
    next_yield,        \* DomainQueue.next_yield
    taken,             \* the names DomainQueue.get has returned, in order
    last_get,          \* clock value at the latest return of DomainQueue.get, -1 before
    w_pc,              \* DomainWorker: position of each worker
    w_domain,          \* DomainWorker: the local `domain` / `new_domain`
    w_ip,              \* DomainWorker.__check_resolution: the local `ip`
    w_count,           \* DomainWorker.__log: the value of FOUND_COUNT it loaded
    cs_pc,             \* CertStreamThread: position
    cs_todo,           \* CertStreamThread.process: names of the event not yet offered
    cs_domain,         \* DomainQueue.put: the name being offered
    events_left,       \* feed messages still to come
    findings,          \* the arguments of the __log calls that have counted, in order
    domains_log        \* the lines of domains.log

vars == << ARGS, KEYWORD_DOMAINS, FOUND_COUNT, main_pc, started, now,
           checked_domains, queue, unfinished_tasks, lock, rate_limited,
           next_yield, taken, last_get, w_pc, w_domain, w_ip, w_count, cs_pc,
           cs_todo, cs_domain, events_left, findings, domains_log >>

mainVars == << main_pc, started, KEYWORD_DOMAINS >>
rateVars == << lock, rate_limited, next_yield >>
getVars == << taken, last_get >>
workerVars == << w_pc, w_domain, w_ip, w_count >>
feedVars == << cs_pc, cs_todo, cs_domain, events_left >>
sinkVars == << FOUND_COUNT, findings, domains_log >>

\* threads.extend([DomainWorker(q) for _ in range(0, ARGS.threads)])
Workers == 1..DefaultThreads(ThreadsArg)

\* the CertStreamThread of threads.extend([UpdateThread(q), CertStreamThread(q)])
CertStream == 0

\* the members of a list
Range(seq) == {seq[i] : i \in 1..Len(seq)}

\* parser.parse_args(namespace=ARGS): every combination of the six options
AllArgs ==
    [resolve : BOOLEAN, only_resolving : BOOLEAN, skip_lets_encrypt : BOOLEAN,
     log_to_file : BOOLEAN, keywords_only : BOOLEAN, threads : {ThreadsArg}]

\* the number of TRUE values among three flags
FlagCount(a, b, c) ==
    (IF a THEN 1 ELSE 0) + (IF b THEN 1 ELSE 0) + (IF c THEN 1 ELSE 0)

\* the command lines of the modelled runs: --resolve and --only-resolving in
\* every combination, with at most one of --skip-lets-encrypt, -l and
\* --keywords-only beside them
ArgSpace ==
    {a \in AllArgs :
        FlagCount(a.skip_lets_encrypt, a.log_to_file, a.keywords_only) <= 1}

Init ==
    /\ ARGS \in ArgSpace
    /\ KEYWORD_DOMAINS = <<>>
    /\ FOUND_COUNT = 0
    /\ main_pc = "setup"
    /\ started = FALSE
    /\ now = 0
    /\ checked_domains = <<>>
    /\ queue = <<>>
    /\ unfinished_tasks = 0
    /\ lock = {}
    /\ rate_limited = FALSE
    /\ next_yield = 0
    /\ taken = <<>>
    /\ last_get = -1
    /\ w_pc = [w \in Workers |-> "get"]
    /\ w_domain = [w \in Workers |-> NoName]
    /\ w_ip = [w \in Workers |-> NoName]
    /\ w_count = [w \in Workers |-> 0]
    /\ cs_pc = "connect"
    /\ cs_todo = {}
    /\ cs_domain = NoName
    /\ events_left = MaxEvents
    /\ findings = <<>>
    /\ domains_log = <<>>

(* ------------------------------------------------------------------ *)
(* main()                                                             *)
(* ------------------------------------------------------------------ *)

\* lines 203-218: parse, default the thread count, build KEYWORD_DOMAINS
MainSetup ==
    /\ main_pc = "setup"
    /\ main_pc' = "try"
    /\ ARGS' = [ARGS EXCEPT !.threads = DefaultThreads(ARGS.threads)]
    /\ KEYWORD_DOMAINS' = BuildKeywords(ARGS.keywords_only)
    /\ UNCHANGED << started, now, checked_domains, queue, unfinished_tasks,
                    rateVars, getVars, workerVars, feedVars, sinkVars >>

\* lines 221-226: build the queue and the threads, start them, signal.pause()
MainStart ==
    /\ main_pc = "try"
    /\ main_pc' = "paused"
    /\ started' = TRUE
    /\ UNCHANGED << ARGS, KEYWORD_DOMAINS, now, checked_domains, queue,
                    unfinished_tasks, rateVars, getVars, workerVars, feedVars,
                    sinkVars >>

\* SIGINT inside the try block raises KeyboardInterrupt in the main thread
Interrupt ==
    /\ main_pc \in {"try", "paused"}
    /\ main_pc' = "except"
    /\ UNCHANGED << ARGS, KEYWORD_DOMAINS, started, now, checked_domains, queue,
                    unfinished_tasks, rateVars, getVars, workerVars, feedVars,
                    sinkVars >>

\* Thread.join returns once the thread's run() has returned
ThreadFinished(w) == w_pc[w] = "finished"

\* [t.join() for t in threads]: over at once when the interrupt came before
\* the threads were started, and otherwise waits for every thread in turn
MainJoin ==
    /\ main_pc = "except"
    /\ (~started \/ \A w \in Workers : ThreadFinished(w))
    /\ main_pc' = "exited"
    /\ UNCHANGED << ARGS, KEYWORD_DOMAINS, started, now, checked_domains, queue,
                    unfinished_tasks, rateVars, getVars, workerVars, feedVars,
                    sinkVars >>

\* the clock
Tick ==
    /\ now < MaxTime
    /\ now' = now + 1
    /\ UNCHANGED << ARGS, mainVars, checked_domains, queue, unfinished_tasks,
                    rateVars, getVars, workerVars, feedVars, sinkVars >>

(* ------------------------------------------------------------------ *)
(* DomainQueue.get, as run by worker w                                *)
(* ------------------------------------------------------------------ *)

\* `with self.lock:` entered
AcquireLock(w) ==
    /\ started
    /\ w_pc[w] = "get"
    /\ lock = {}
    /\ lock' = {w}
    /\ w_pc' = [w_pc EXCEPT ![w] = "locked"]
    /\ UNCHANGED << ARGS, mainVars, now, checked_domains, queue, unfinished_tasks,
                    rate_limited, next_yield, getVars, w_domain, w_ip, w_count,
                    feedVars, sinkVars >>

\* whether get() sleeps: `self.rate_limited and t < self.next_yield`
MustSleep(limited, t, yield) == limited /\ t < yield

\* get() with self.lock.acquire() in place of the with block, and no release
RateLimitKeepsLock(w) ==
    /\ w_pc[w] = "locked"
    /\ lock = {w}
    /\ LET sleeps == MustSleep(rate_limited, now, next_yield)
           t == IF sleeps THEN next_yield ELSE now IN
        /\ now' = t
        /\ rate_limited' = IF sleeps THEN FALSE ELSE rate_limited
        /\ next_yield' = t + RATE_LIMIT_SLEEP
    /\ w_pc' = [w_pc EXCEPT ![w] = "take"]
    /\ UNCHANGED << ARGS, mainVars, checked_domains, queue, unfinished_tasks,
                    lock, getVars, w_domain, w_ip, w_count, feedVars, sinkVars >>

\* the body of the with block: read the clock, sleep up to next_yield when
\* rate_limited is set, advance next_yield, leave the block
RateLimit(w) ==
    /\ w_pc[w] = "locked"
    /\ lock = {w}
    /\ LET sleeps == MustSleep(rate_limited, now, next_yield)
           t == IF sleeps THEN next_yield ELSE now IN
        /\ now' = t
        /\ rate_limited' = IF sleeps THEN FALSE ELSE rate_limited
        /\ next_yield' = t + RATE_LIMIT_SLEEP
    /\ lock' = {}
    /\ w_pc' = [w_pc EXCEPT ![w] = "take"]
    /\ UNCHANGED << ARGS, mainVars, checked_domains, queue, unfinished_tasks,
                    getVars, w_domain, w_ip, w_count, feedVars, sinkVars >>

(* ------------------------------------------------------------------ *)
(* DomainWorker                                                       *)
(* ------------------------------------------------------------------ *)

\* __process with the marker stripped before the match is decided
process_strip_first(args, keywords, domain) ==
    IF domain_contains_any_keywords(keywords, StripWildcard(domain))
    THEN [pc |-> IF args.resolve THEN "resolve" ELSE "log",
          domain |-> StripWildcard(domain)]
    ELSE [pc |-> "get", domain |-> NoName]

\* __process without line 131: the marker is kept
process_keeps_marker(args, keywords, domain) ==
    IF domain_contains_any_keywords(keywords, domain)
    THEN [pc |-> IF args.resolve THEN "resolve" ELSE "log", domain |-> domain]
    ELSE [pc |-> "get", domain |-> NoName]

\* __process: where the worker goes with `domain` and what it carries there
\* ("resolve": __check_resolution, "log": __log, "get": back to run())
process(args, keywords, domain) ==
    IF domain_contains_any_keywords(keywords, domain)
    THEN [pc |-> IF args.resolve THEN "resolve" ELSE "log",
          domain |-> StripWildcard(domain)]
    ELSE [pc |-> "get", domain |-> NoName]

\* __check_resolution whose except branch logs without looking at
\* ARGS.only_resolving
check_resolution_logs_misses(args, domain, ip) ==
    IF ip # NoName
    THEN IF args.only_resolving
         THEN [pc |-> "log", domain |-> DomainIpLine(domain, ip)]
         ELSE [pc |-> "get", domain |-> NoName]
    ELSE [pc |-> "log", domain |-> domain]

\* __check_resolution after the lookup: `ip` is an address, or NoName when
\* gethostbyname raised
check_resolution(args, domain, ip) ==
    IF ip # NoName
    THEN IF args.only_resolving
         THEN [pc |-> "log", domain |-> DomainIpLine(domain, ip)]
         ELSE [pc |-> "get", domain |-> NoName]
    ELSE IF ~args.only_resolving
         THEN [pc |-> "log", domain |-> domain]
         ELSE [pc |-> "get", domain |-> NoName]

\* run(): `finally: self.q.task_done()` is reached when the worker is back
\* at the top of `while True`
task_done(pc, tasks) == IF pc = "get" THEN tasks - 1 ELSE tasks

\* a get() that prunes checked_domains of the name it returns
TakeAndForget(w) ==
    /\ w_pc[w] = "take"
    /\ queue # <<>>
    /\ queue' = Tail(queue)
    /\ taken' = Append(taken, Head(queue))
    /\ last_get' = now
    /\ checked_domains' = SelectSeq(checked_domains, LAMBDA d : d # Head(queue))
    /\ LET next == process(ARGS, KEYWORD_DOMAINS, Head(queue)) IN
        /\ w_pc' = [w_pc EXCEPT ![w] = next.pc]
        /\ w_domain' = [w_domain EXCEPT ![w] = next.domain]
        /\ unfinished_tasks' = task_done(next.pc, unfinished_tasks)
    /\ UNCHANGED << ARGS, mainVars, now, rateVars, w_ip, w_count, feedVars,
                    sinkVars >>

\* a get() that pops the newest name of the buffer instead of the oldest
TakeNewest(w) ==
    /\ w_pc[w] = "take"
    /\ queue # <<>>
    /\ queue' = SubSeq(queue, 1, Len(queue) - 1)
    /\ taken' = Append(taken, queue[Len(queue)])
    /\ last_get' = now
    /\ LET next == process(ARGS, KEYWORD_DOMAINS, queue[Len(queue)]) IN
        /\ w_pc' = [w_pc EXCEPT ![w] = next.pc]
        /\ w_domain' = [w_domain EXCEPT ![w] = next.domain]
        /\ unfinished_tasks' = task_done(next.pc, unfinished_tasks)
    /\ UNCHANGED << ARGS, mainVars, now, checked_domains, rateVars, w_ip, w_count,
                    feedVars, sinkVars >>

\* `domain = self.q.get()`: super().get() blocks while the buffer is empty,
\* then pops its head; `self.__process(domain)` up to its call of
\* __check_resolution or __log
Take(w) ==
    /\ w_pc[w] = "take"
    /\ queue # <<>>
    /\ queue' = Tail(queue)
    /\ taken' = Append(taken, Head(queue))
    /\ last_get' = now
    /\ LET next == process(ARGS, KEYWORD_DOMAINS, Head(queue)) IN
        /\ w_pc' = [w_pc EXCEPT ![w] = next.pc]
        /\ w_domain' = [w_domain EXCEPT ![w] = next.domain]
        /\ unfinished_tasks' = task_done(next.pc, unfinished_tasks)
    /\ UNCHANGED << ARGS, mainVars, now, checked_domains, rateVars, w_ip, w_count,
                    feedVars, sinkVars >>

\* __check_resolution: socket.gethostbyname(domain) returns an address or raises
Lookup(w) ==
    /\ w_pc[w] = "resolve"
    /\ \E ip \in IPs \cup {NoName} : w_ip' = [w_ip EXCEPT ![w] = ip]
    /\ w_pc' = [w_pc EXCEPT ![w] = "resolved"]
    /\ UNCHANGED << ARGS, mainVars, now, checked_domains, queue, unfinished_tasks,
                    rateVars, getVars, w_domain, w_count, feedVars, sinkVars >>

\* __check_resolution: the try branch or the except branch, up to __log
CheckResolution(w) ==
    /\ w_pc[w] = "resolved"
    /\ LET next == check_resolution(ARGS, w_domain[w], w_ip[w]) IN
        /\ w_pc' = [w_pc EXCEPT ![w] = next.pc]
        /\ w_domain' = [w_domain EXCEPT ![w] = next.domain]
        /\ unfinished_tasks' = task_done(next.pc, unfinished_tasks)
    /\ w_ip' = [w_ip EXCEPT ![w] = NoName]
    /\ UNCHANGED << ARGS, mainVars, now, checked_domains, queue, rateVars,
                    getVars, w_count, feedVars, sinkVars >>

\* __log, first half of `FOUND_COUNT += 1`: load the global
LogLoad(w) ==
    /\ w_pc[w] = "log"
    /\ w_count' = [w_count EXCEPT ![w] = FOUND_COUNT]
    /\ w_pc' = [w_pc EXCEPT ![w] = "log_store"]
    /\ UNCHANGED << ARGS, mainVars, now, checked_domains, queue, unfinished_tasks,
                    rateVars, getVars, w_domain, w_ip, feedVars, sinkVars >>

\* the value `FOUND_COUNT += 1` stores, from the value it loaded
Incremented(loaded) == loaded + 1

\* `if ARGS.log_to_file:` the line is appended to domains.log
log_write(args, log, new_domain) ==
    IF args.log_to_file THEN Append(log, new_domain) ELSE log

\* __log, second half of `FOUND_COUNT += 1`: store the sum; then the write
\* to domains.log, the return to run() and task_done
LogStore(w) ==
    /\ w_pc[w] = "log_store"
    /\ FOUND_COUNT' = Incremented(w_count[w])
    /\ findings' = Append(findings, w_domain[w])
    /\ domains_log' = log_write(ARGS, domains_log, w_domain[w])
    /\ w_count' = [w_count EXCEPT ![w] = 0]
    /\ w_domain' = [w_domain EXCEPT ![w] = NoName]
    /\ w_pc' = [w_pc EXCEPT ![w] = "get"]
    /\ unfinished_tasks' = task_done("get", unfinished_tasks)
    /\ UNCHANGED << ARGS, mainVars, now, checked_domains, queue, rateVars,
                    getVars, w_ip, feedVars >>

\* run() without its except clause: the exception ends the thread
run_without_except == "finished"

\* run(): `except Exception as e: print(e)`, then `finally`, then the top of
\* `while True` again
run_except == "get"

\* __log: `FOUND_COUNT += 1` has stored, then open("domains.log", "a+") or
\* log.write raises OSError: nothing is appended to the file. The exception
\* leaves __log and is caught by run() (or, when __log was called from the try
\* branch of __check_resolution, by its `except Exception`, which under
\* --only-resolving logs nothing more and returns to run()); task_done
LogFault(w) ==
    /\ w_pc[w] = "log_store"
    /\ ARGS.log_to_file
    /\ FOUND_COUNT' = Incremented(w_count[w])
    /\ findings' = Append(findings, w_domain[w])
    /\ w_count' = [w_count EXCEPT ![w] = 0]
    /\ w_domain' = [w_domain EXCEPT ![w] = NoName]
    /\ w_pc' = [w_pc EXCEPT ![w] = run_except]
    /\ unfinished_tasks' = unfinished_tasks - 1
    /\ UNCHANGED << ARGS, mainVars, now, checked_domains, queue, rateVars,
                    getVars, w_ip, feedVars, domains_log >>

(* ------------------------------------------------------------------ *)
(* CertStreamThread                                                   *)
(* ------------------------------------------------------------------ *)

\* a feed message: message_type, whether chain[0].subject.aggregated contains
\* "Let's Encrypt", and set(leaf_cert.all_domains)
Messages ==
    [message_type : {"heartbeat", "certificate_update"},
     lets_encrypt : BOOLEAN,
     all_domains : {S \in SUBSET FeedDomains : Cardinality(S) \in 1..MaxNames}]

\* process() without the test of line 73
process_never_skips(args, message) ==
    IF message.message_type = "heartbeat" THEN "heartbeat" ELSE "process"

\* process(): where it goes with the message: the return of line 68, the
\* return of line 74, or the for loop
process_branch(args, message) ==
    IF message.message_type = "heartbeat" THEN "heartbeat"
    ELSE IF args.skip_lets_encrypt /\ message.lets_encrypt THEN "skipped"
    ELSE "process"

\* run(): self.c.run_forever() entered
Connect ==
    /\ started
    /\ cs_pc = "connect"
    /\ cs_pc' = "recv"
    /\ UNCHANGED << ARGS, mainVars, now, checked_domains, queue, unfinished_tasks,
                    rateVars, getVars, workerVars, cs_todo, cs_domain, events_left,
                    sinkVars >>

\* the client calls process(message, context)
Receive ==
    /\ cs_pc = "recv"
    /\ events_left > 0
    /\ events_left' = events_left - 1
    /\ \E message \in Messages :
        /\ cs_pc' = process_branch(ARGS, message)
        /\ cs_todo' = IF cs_pc' = "process" THEN message.all_domains ELSE {}
    /\ UNCHANGED << ARGS, mainVars, now, checked_domains, queue, unfinished_tasks,
                    rateVars, getVars, workerVars, cs_domain, sinkVars >>

\* process() returns without offering anything (lines 68 and 74)
ProcessReturn ==
    /\ cs_pc \in {"heartbeat", "skipped"}
    /\ cs_pc' = "recv"
    /\ UNCHANGED << ARGS, mainVars, now, checked_domains, queue, unfinished_tasks,
                    rateVars, getVars, workerVars, cs_todo, cs_domain, events_left,
                    sinkVars >>

\* the for loop of process() after put(domain) has returned
AfterPut(todo) == IF todo = {} THEN "recv" ELSE "process"

\* DomainQueue.put without the membership test of line 93
PutNoDedup(domain) ==
    /\ cs_pc = "process"
    /\ domain \in cs_todo
    /\ cs_domain' = domain
    /\ checked_domains' = Append(checked_domains, domain)
    /\ cs_pc' = "put"
    /\ UNCHANGED << ARGS, mainVars, now, queue, unfinished_tasks, rateVars,
                    getVars, workerVars, cs_todo, events_left, sinkVars >>

\* DomainQueue.put(domain), up to the call of super().put: the membership
\* test and the append to checked_domains
Put(domain) ==
    /\ cs_pc = "process"
    /\ domain \in cs_todo
    /\ cs_domain' = domain
    /\ IF domain \notin Range(checked_domains)
       THEN /\ checked_domains' = Append(checked_domains, domain)
            /\ cs_pc' = "put"
       ELSE /\ cs_pc' = "seen"
            /\ UNCHANGED checked_domains
    /\ UNCHANGED << ARGS, mainVars, now, queue, unfinished_tasks, rateVars,
                    getVars, workerVars, cs_todo, events_left, sinkVars >>

\* DomainQueue.put(domain) returns, the name having been seen before
PutSeen ==
    /\ cs_pc = "seen"
    /\ cs_todo' = cs_todo \ {cs_domain}
    /\ cs_domain' = NoName
    /\ cs_pc' = AfterPut(cs_todo')
    /\ UNCHANGED << ARGS, mainVars, now, checked_domains, queue, unfinished_tasks,
                    rateVars, getVars, workerVars, events_left, sinkVars >>

\* a put that lets one name too many in
HasRoomOffByOne(q) == Len(q) <= QUEUE_SIZE

\* queue.Queue.put: waits while the buffer holds maxsize items
HasRoom(q) == Len(q) < QUEUE_SIZE

\* super().put(domain) returns
Enqueue ==
    /\ cs_pc = "put"
    /\ HasRoom(queue)
    /\ queue' = Append(queue, cs_domain)
    /\ unfinished_tasks' = unfinished_tasks + 1
    /\ cs_todo' = cs_todo \ {cs_domain}
    /\ cs_domain' = NoName
    /\ cs_pc' = AfterPut(cs_todo')
    /\ UNCHANGED << ARGS, mainVars, now, checked_domains, rateVars, getVars,
                    workerVars, events_left, sinkVars >>

\* run() without its `while True`: the thread ends when run_forever() returns
DisconnectEndsRun ==
    /\ cs_pc = "recv"
    /\ cs_pc' = "finished"
    /\ UNCHANGED << ARGS, mainVars, now, checked_domains, queue, unfinished_tasks,
                    rateVars, getVars, workerVars, cs_todo, cs_domain, events_left,
                    sinkVars >>

\* run_forever() returns: the feed disconnected
Disconnect ==
    /\ cs_pc = "recv"
    /\ cs_pc' = "backoff"
    /\ UNCHANGED << ARGS, mainVars, now, checked_domains, queue, unfinished_tasks,
                    rateVars, getVars, workerVars, cs_todo, cs_domain, events_left,
                    sinkVars >>

\* time.sleep(10) returns
Backoff ==
    /\ cs_pc = "backoff"
    /\ cs_pc' = "connect"
    /\ UNCHANGED << ARGS, mainVars, now, checked_domains, queue, unfinished_tasks,
                    rateVars, getVars, workerVars, cs_todo, cs_domain, events_left,
                    sinkVars >>

(* ------------------------------------------------------------------ *)
(* UpdateThread                                                       *)
(* ------------------------------------------------------------------ *)

\* one turn of run(): it reads len(q.checked_domains) and FOUND_COUNT and
\* writes the console and its own checked_domains_since_last_update only
Update ==
    /\ started
    /\ UNCHANGED vars

(* ------------------------------------------------------------------ *)
(* The program                                                        *)
(* ------------------------------------------------------------------ *)

Next ==
    \/ MainSetup
    \/ MainStart
    \/ Interrupt
    \/ MainJoin
    \/ Tick
    \/ \E w \in Workers : AcquireLock(w)
    \/ \E w \in Workers : RateLimit(w)
    \/ \E w \in Workers : Take(w)
    \/ \E w \in Workers : Lookup(w)
    \/ \E w \in Workers : CheckResolution(w)
    \/ \E w \in Workers : LogLoad(w)
    \/ \E w \in Workers : LogStore(w)
    \/ \E w \in Workers : LogFault(w)
    \/ Connect
    \/ Receive
    \/ ProcessReturn
    \/ \E domain \in FeedDomains : Put(domain)
    \/ PutSeen
    \/ Enqueue
    \/ Disconnect
    \/ Backoff
    \/ Update

Spec == Init /\ [][Next]_vars

\* the steps of worker thread w
WorkerStep(w) ==
    \/ AcquireLock(w)
    \/ RateLimit(w)
    \/ Take(w)
    \/ Lookup(w)
    \/ CheckResolution(w)
    \/ LogLoad(w)
    \/ LogStore(w)
    \/ LogFault(w)

\* the steps CertStreamThread takes by itself: a message or a disconnect is
\* the feed's doing
FeedStep ==
    \/ Connect
    \/ ProcessReturn
    \/ \E domain \in FeedDomains : Put(domain)
    \/ PutSeen
    \/ Enqueue
    \/ Backoff

\* the steps main() takes by itself: the signal is the operator's doing
MainStep == MainSetup \/ MainStart \/ MainJoin

\* every started thread is scheduled again and again
Fairness ==
    /\ \A w \in Workers : WF_vars(WorkerStep(w))
    /\ WF_vars(FeedStep)
    /\ WF_vars(MainStep)

\* one run: --resolve -l
FairInit ==
    /\ Init
    /\ ARGS.resolve
    /\ ARGS.log_to_file
    /\ ~ARGS.only_resolving
    /\ ~ARGS.skip_lets_encrypt
    /\ ~ARGS.keywords_only

FairSpec == FairInit /\ [][Next]_vars /\ Fairness

(* ------------------------------------------------------------------ *)
(* The matcher on drawn names: one certificate that lists one name of *)
(* Names, in a no-resolve run with raw or expanded keywords           *)
(* ------------------------------------------------------------------ *)

\* the runs without --resolve, -l and --skip-lets-encrypt, one message to come
MatchInit ==
    /\ ARGS \in {a \in ArgSpace : /\ ~a.resolve
                                  /\ ~a.only_resolving
                                  /\ ~a.skip_lets_encrypt
                                  /\ ~a.log_to_file}
    /\ KEYWORD_DOMAINS = <<>>
    /\ FOUND_COUNT = 0
    /\ main_pc = "setup"
    /\ started = FALSE
    /\ now = 0
    /\ checked_domains = <<>>
    /\ queue = <<>>
    /\ unfinished_tasks = 0
    /\ lock = {}
    /\ rate_limited = FALSE
    /\ next_yield = 0
    /\ taken = <<>>
    /\ last_get = -1
    /\ w_pc = [w \in Workers |-> "get"]
    /\ w_domain = [w \in Workers |-> NoName]
    /\ w_ip = [w \in Workers |-> NoName]
    /\ w_count = [w \in Workers |-> 0]
    /\ cs_pc = "connect"
    /\ cs_todo = {}
    /\ cs_domain = NoName
    /\ events_left = 1
    /\ findings = <<>>
    /\ domains_log = <<>>

\* the client calls process(message, context) with a certificate_update
\* whose all_domains is one name
ReceiveName ==
    /\ cs_pc = "recv"
    /\ events_left > 0
    /\ events_left' = events_left - 1
    /\ \E domain \in Names :
        /\ cs_pc' = process_branch(ARGS, [message_type |-> "certificate_update",
                                          lets_encrypt |-> FALSE,
                                          all_domains |-> {domain}])
        /\ cs_todo' = {domain}
    /\ UNCHANGED << ARGS, mainVars, now, checked_domains, queue, unfinished_tasks,
                    rateVars, getVars, workerVars, cs_domain, sinkVars >>

MatchNext ==
    \/ MainSetup
    \/ MainStart
    \/ Connect
    \/ ReceiveName
    \/ \E domain \in Names : Put(domain)
    \/ Enqueue
    \/ \E w \in Workers : AcquireLock(w)
    \/ \E w \in Workers : RateLimit(w)
    \/ \E w \in Workers : Take(w)
    \/ \E w \in Workers : LogLoad(w)
    \/ \E w \in Workers : LogStore(w)

MatchSpec == MatchInit /\ [][MatchNext]_vars

(* ------------------------------------------------------------------ *)
(* The start of main() on drawn command lines: -t/--threads absent,   *)
(* not an integer, or an integer                                      *)
(* ------------------------------------------------------------------ *)

\* what the command line says about -t/--threads
ThreadOptions ==
    {[given |-> FALSE, int |-> FALSE, value |-> 0],
     [given |-> TRUE, int |-> FALSE, value |-> 0]}
    \cup {[given |-> TRUE, int |-> TRUE, value |-> n] : n \in -1..MaxThreadsOption}

\* argparse on -t/--threads: type=int rejects a word that is no integer
\* (parser.error: usage message, exit status 2)
threads_rejected(option) == option.given /\ ~option.int

\* argparse on -t/--threads: the default when the option is absent
parse_threads(option) == IF option.given THEN option.value ELSE THREADS_DEFAULT

\* the command line before parse_args: the five flags, and argv_threads for
\* what it says about -t/--threads; nothing is constructed yet
ArgsInit ==
    /\ ARGS \in [resolve : BOOLEAN, only_resolving : BOOLEAN,
                  skip_lets_encrypt : BOOLEAN, log_to_file : BOOLEAN,
                  keywords_only : BOOLEAN, argv_threads : ThreadOptions]
    /\ KEYWORD_DOMAINS = <<>>
    /\ FOUND_COUNT = 0
    /\ main_pc = "parse"
    /\ started = FALSE
    /\ now = 0
    /\ checked_domains = <<>>
    /\ queue = <<>>
    /\ unfinished_tasks = 0
    /\ lock = {}
    /\ rate_limited = FALSE
    /\ next_yield = 0
    /\ taken = <<>>
    /\ last_get = -1
    /\ w_pc = <<>>
    /\ w_domain = <<>>
    /\ w_ip = <<>>
    /\ w_count = <<>>
    /\ cs_pc = "connect"
    /\ cs_todo = {}
    /\ cs_domain = NoName
    /\ events_left = MaxEvents
    /\ findings = <<>>
    /\ domains_log = <<>>

\* parser.parse_args(namespace=ARGS): ARGS.threads is set, or the process
\* exits on an option that is no integer
ArgsParse ==
    /\ main_pc = "parse"
    /\ IF threads_rejected(ARGS.argv_threads)
       THEN main_pc' = "exited" /\ UNCHANGED ARGS
       ELSE /\ main_pc' = "setup"
            /\ ARGS' = [f \in DOMAIN ARGS \cup {"threads"} |->
                            IF f = "threads" THEN parse_threads(ARGS.argv_threads)
                            ELSE ARGS[f]]
    /\ UNCHANGED << KEYWORD_DOMAINS, started, now, checked_domains, queue,
                    unfinished_tasks, rateVars, getVars, workerVars, feedVars,
                    sinkVars >>

\* lines 221-226: [DomainWorker(q) for _ in range(0, ARGS.threads)] are
\* constructed and started with the two other threads; signal.pause()
ArgsStart ==
    /\ main_pc = "try"
    /\ main_pc' = "paused"
    /\ started' = TRUE
    /\ w_pc' = [w \in 1..ARGS.threads |-> "get"]
    /\ w_domain' = [w \in 1..ARGS.threads |-> NoName]
    /\ w_ip' = [w \in 1..ARGS.threads |-> NoName]
    /\ w_count' = [w \in 1..ARGS.threads |-> 0]
    /\ UNCHANGED << ARGS, KEYWORD_DOMAINS, now, checked_domains, queue,
                    unfinished_tasks, rateVars, getVars, feedVars, sinkVars >>

ArgsNext ==
    \/ ArgsParse
    \/ MainSetup
    \/ ArgsStart

ArgsSpec == ArgsInit /\ [][ArgsNext]_vars

(* ------------------------------------------------------------------ *)
(* Vocabulary of the properties                                       *)
(* ------------------------------------------------------------------ *)

\* how many times x occurs in a list
Count(seq, x) == Cardinality({i \in 1..Len(seq) : seq[i] = x})

\* no member twice
NoDuplicates(seq) == \A i, j \in 1..Len(seq) : seq[i] = seq[j] => i = j

\* a logged line with no IP field
NoIpField(line) == "," \notin Range(line)

\* this step is a return of DomainQueue.get
Withdrawal == Len(taken') = Len(taken) + 1

\* worker w leaves position p in this step
Leaves(w, p) == w_pc[w] = p /\ w_pc'[w] # p

\* workers inside __log with the line `name`
Logging(name) == {w \in Workers : w_pc[w] \in {"log", "log_store"} /\ w_domain[w] = name}

\* withdrawn names that matched a keyword and are logged as `name`
MatchedAs(name) ==
    {i \in 1..Len(taken) :
        /\ domain_contains_any_keywords(KEYWORD_DOMAINS, taken[i])
        /\ StripWildcard(taken[i]) = name}

(* ------------------------------------------------------------------ *)
(* Properties                                                         *)
(* ------------------------------------------------------------------ *)

\* C1: between two consecutive returns of DomainQueue.get, by whichever
\* workers, at least RATE_LIMIT_SLEEP ticks pass.
C1_WithdrawalGap ==
    [][(Withdrawal /\ last_get >= 0) => now' - last_get >= RATE_LIMIT_SLEEP]_vars

\* C2: in resolve mode, a lookup that returned an address is always followed
\* by __log(domain + "," + ip), with --only-resolving and without it.
C2_SuccessAlwaysLogged ==
    [][\A w \in Workers :
        (ARGS.resolve /\ Leaves(w, "resolved") /\ w_ip[w] # NoName)
            => /\ w_pc'[w] = "log"
               /\ w_domain'[w] = w_domain[w] \o <<",">> \o w_ip[w]]_vars

\* C3: in resolve mode, a lookup that failed is dropped under
\* --only-resolving (no Finding, the counter untouched), and otherwise is
\* followed by one __log of the domain alone, which adds that one Finding
\* and stores the counter it loaded plus one.
C3_FailurePolicy ==
    [][\A w \in Workers :
        /\ (Leaves(w, "resolved") /\ w_ip[w] = NoName)
            => IF ARGS.only_resolving
               THEN w_pc'[w] = "get" /\ UNCHANGED sinkVars
               ELSE /\ w_pc'[w] = "log"
                    /\ w_domain'[w] = w_domain[w]
                    /\ NoIpField(w_domain[w])
                    /\ UNCHANGED sinkVars
        /\ (ARGS.resolve /\ Leaves(w, "log"))
            => /\ w_pc'[w] = "log_store"
               /\ w_domain'[w] = w_domain[w]
               /\ w_count'[w] = FOUND_COUNT
               /\ UNCHANGED sinkVars
        /\ (ARGS.resolve /\ Leaves(w, "log_store"))
            => /\ w_pc'[w] = "get"
               /\ findings' = findings \o <<w_domain[w]>>
               /\ FOUND_COUNT' = w_count[w] + 1]_vars

\* C3 witness: a run without --only-resolving has logged the bare name of a
\* domain whose lookup failed.
C3_Witness ==
    /\ ARGS.resolve
    /\ ~ARGS.only_resolving
    /\ findings = <<PlainKC>>
    /\ FOUND_COUNT = 1
    /\ taken = <<WildKC>>

\* C4: in no-resolve mode no lookup is ever attempted, and every withdrawn
\* name that matched a keyword has exactly one Finding, its wildcard-free
\* name with no IP field, logged or being logged; each __log stores the
\* counter it loaded plus one.
C4_NoResolveFindings ==
    [][(~ARGS.resolve) =>
        /\ \A w \in Workers :
            /\ w_pc'[w] \notin {"resolve", "resolved"}
            /\ w_ip'[w] = NoName
            /\ Leaves(w, "log_store") => FOUND_COUNT' = w_count[w] + 1
        /\ \A i \in 1..Len(findings') : NoIpField(findings'[i])
        /\ \A name \in {PlainKC, PlainXC, WildKC} :
            Count(findings', name) + Cardinality(Logging(name)')
                = Cardinality(MatchedAs(name)')]_vars

\* C4 witness: a no-resolve run has withdrawn a wildcard name and a
\* non-matching name and logged the one Finding.
C4_Witness ==
    /\ ~ARGS.resolve
    /\ Range(taken) = {WildKC, PlainXC}
    /\ findings = <<PlainKC>>
    /\ FOUND_COUNT = 1
    /\ \A w \in Workers : w_pc[w] \in {"get", "locked", "take"}

\* C5: a name is in checked_domains at most once and is enqueued at most
\* once; an offer of a name already seen changes neither checked_domains
\* nor the buffer nor the task count, and can return whatever the buffer
\* holds.
C5_IdempotentOffer ==
    [][/\ NoDuplicates(checked_domains')
       /\ NoDuplicates(taken' \o queue')
       /\ (cs_pc = "process" /\ cs_pc' = "seen")
            => /\ cs_domain' \in Range(checked_domains)
               /\ UNCHANGED << checked_domains, queue, unfinished_tasks >>
       /\ (cs_pc = "process" /\ cs_pc' = "put")
            => cs_domain' \notin Range(checked_domains)
       /\ cs_pc = "seen" => ENABLED PutSeen
       /\ (cs_pc = "seen" /\ cs_pc' # "seen")
            => /\ cs_pc' \in {"recv", "process"}
               /\ UNCHANGED << checked_domains, queue, unfinished_tasks >>]_vars

\* C5 witness: put() was called with a name seen before while the buffer is
\* full.
C5_Witness ==
    /\ cs_pc = "seen"
    /\ cs_domain \in Range(checked_domains)
    /\ Len(queue) = QUEUE_SIZE

\* C6: the buffer never holds more than QUEUE_SIZE names; an offer that finds
\* it full waits, and ends only by appending its name; every name of
\* checked_domains is in the buffer, has been withdrawn, or is the name of
\* the waiting offer.
C6_Backpressure ==
    [][/\ Len(queue') <= QUEUE_SIZE
       /\ \A d \in Range(checked_domains') :
            \/ d \in Range(taken') \cup Range(queue')
            \/ cs_pc' = "put" /\ cs_domain' = d
       /\ (cs_pc = "put" /\ Len(queue) >= QUEUE_SIZE)
            => cs_pc' = "put" /\ cs_domain' = cs_domain
       /\ (cs_pc = "put" /\ cs_pc' # "put")
            => queue' = queue \o <<cs_domain>>]_vars

\* C6 witness: an offer of an unseen name is waiting on a full buffer.
C6_Witness ==
    /\ cs_pc = "put"
    /\ Len(queue) = QUEUE_SIZE
    /\ cs_domain \notin Range(queue)
    /\ cs_domain \in Range(checked_domains)

\* the worker that returns from get in this step found a match
Matched(w) == w_pc'[w] \in {"resolve", "log"}

C8_InterruptTerminates == (main_pc = "except") ~> (main_pc = "exited")

\* C9: the found counter equals the number of Findings logged.
C9_CounterMatchesFindings == FOUND_COUNT = Len(findings)

\* C10: checked_domains never holds a name twice and changes only in steps
\* of a thread that holds DomainQueue.lock.
C10_AdmissionUnderLock ==
    [][/\ NoDuplicates(checked_domains')
       /\ checked_domains' # checked_domains => lock = {CertStream}]_vars

\* the name of the offer waiting in super().put, as a list
Waiting == IF cs_pc = "put" THEN <<cs_domain>> ELSE <<>>

\* C11: names are withdrawn in the order they were admitted, whichever
\* workers withdraw them: the names withdrawn so far, then the buffer, then
\* the name of the waiting offer, are checked_domains in its order.
C11_FifoOrder == taken \o queue \o Waiting = checked_domains

\* C11 witness: two names admitted in this order were withdrawn in this
\* order by two workers that are both still busy with them.
C11_Witness ==
    /\ checked_domains = <<WildKC, PlainKC>>
    /\ taken = <<WildKC, PlainKC>>
    /\ \A w \in Workers : w_pc[w] \in {"resolve", "resolved", "log", "log_store"}

\* worker w's __log fails at the file in this step
Faults(w) == Leaves(w, "log_store") /\ ARGS.log_to_file /\ UNCHANGED domains_log

\* C12: no worker ever leaves its loop: a lookup that raises is handled as a
\* miss, and a __log that fails at the file costs that one item only (its
\* task is marked done, the buffer and what was withdrawn stay) and the
\* worker is back at get().
C12_FaultsAreSurvived ==
    [][\A w \in Workers :
        /\ w_pc'[w] # "finished"
        /\ (Leaves(w, "resolved") /\ w_ip[w] = NoName) => w_pc'[w] \in {"get", "log"}
        /\ Faults(w)
            => /\ w_pc'[w] = "get"
               /\ unfinished_tasks' = unfinished_tasks - 1
               /\ UNCHANGED << queue, taken, checked_domains >>]_vars

\* C12 witness: the first __log of the run failed at the file, a later one
\* wrote its line, and every worker is in its loop.
C12_Witness ==
    /\ ARGS.log_to_file
    /\ Len(findings) = 2
    /\ domains_log = <<findings[2]>>
    /\ \A w \in Workers : w_pc[w] = "take"

\* the seven forms a seed keyword is expanded into
Forms(k) ==
    { k \o <<"-">>, <<"-">> \o k \o <<"-">>, <<"-">> \o k,
      <<".">> \o k \o <<".">>, <<".">> \o k, <<".">> \o k \o <<"-">>,
      <<"-">> \o k \o <<".">> }

\* C13: with --keywords-only, KEYWORD_DOMAINS holds the seven forms of every
\* seed keyword once main() has built it, and a withdrawn name matches when
\* it contains one of the seven forms of a seed and does not match when it
\* contains none of the stored patterns.
C13_KeywordExpansion ==
    [][ARGS.keywords_only =>
        /\ main_pc' # "setup"
            => \A i \in 1..Len(INPUT_DOMAINS) :
                    Forms(INPUT_DOMAINS[i]) \subseteq Range(KEYWORD_DOMAINS')
        /\ \A w \in Workers :
            Leaves(w, "take")
                => /\ (\E i \in 1..Len(INPUT_DOMAINS) :
                        \E f \in Forms(INPUT_DOMAINS[i]) : Contains(Head(queue), f))
                            => Matched(w)
                   /\ (\A p \in Range(KEYWORD_DOMAINS) : ~Contains(Head(queue), p))
                            => ~Matched(w)]_vars

\* C13 witness: with the expanded keywords, 'x.k.x' has matched (through
\* '.k.') and is being logged.
C13_Witness ==
    /\ ARGS.keywords_only
    /\ taken = << <<"x", ".", "k", ".", "x">> >>
    /\ \E w \in Workers : w_pc[w] = "log" /\ w_domain[w] = taken[1]

\* nothing is in flight: the feed waits for a message, the buffer is empty
\* and every worker is on its way to, or waiting in, get()
Quiescent ==
    /\ cs_pc = "recv"
    /\ queue = <<>>
    /\ \A w \in Workers : w_pc[w] \in {"get", "locked", "take"}

\* the names offered so far that contain a seed keyword and are logged as `name`
OfferedAs(name) ==
    {d \in Range(checked_domains) :
        /\ \E i \in 1..Len(INPUT_DOMAINS) : Contains(d, INPUT_DOMAINS[i])
        /\ StripWildcard(d) = name}

\* C14: in a no-resolve run with raw keywords, every Finding is the name of
\* an offered domain that contains a keyword, and once the pipeline has
\* processed what the feed delivered, the Findings are exactly the delivered
\* domains that contain a keyword, one Finding each.
C14_EndToEnd ==
    (~ARGS.resolve /\ ~ARGS.keywords_only) =>
        /\ \A i \in 1..Len(findings) : OfferedAs(findings[i]) # {}
        /\ Quiescent =>
            \A d \in Range(checked_domains) :
                Count(findings, StripWildcard(d))
                    = Cardinality(OfferedAs(StripWildcard(d)))

\* C14 witness: one event with 'k.c' and 'x.c' has been processed and gave
\* the one Finding 'k.c'.
C14_Witness ==
    /\ ~ARGS.resolve
    /\ ~ARGS.keywords_only
    /\ events_left = MaxEvents - 1
    /\ Range(checked_domains) = {PlainKC, PlainXC}
    /\ Quiescent
    /\ findings = <<PlainKC>>

\* C15: a heartbeat, and with --skip-lets-encrypt a certificate whose issuer
\* is Let's Encrypt, make process() return without a call of put: from its
\* delivery to the return, checked_domains stays, nothing is added to the
\* buffer or to the task count, and no name of it is kept for offering.
C15_SkippedOffersNothing ==
    [][/\ cs_pc = "recv" =>
            \A message \in Messages :
                /\ message.message_type = "heartbeat"
                        => process_branch(ARGS, message) = "heartbeat"
                /\ (message.message_type = "certificate_update"
                        /\ ARGS.skip_lets_encrypt /\ message.lets_encrypt)
                        => process_branch(ARGS, message) = "skipped"
       /\ (cs_pc = "recv" /\ cs_pc' \in {"heartbeat", "skipped"})
            => /\ cs_todo' = {}
               /\ UNCHANGED << checked_domains, queue, unfinished_tasks >>
       /\ cs_pc \in {"heartbeat", "skipped"}
            => /\ cs_pc' \in {cs_pc, "recv"}
               /\ cs_todo' = {}
               /\ UNCHANGED checked_domains
               /\ (queue' = queue \/ (queue # <<>> /\ queue' = Tail(queue)))
               /\ unfinished_tasks' <= unfinished_tasks]_vars

\* C15 witness: with --skip-lets-encrypt, a certificate of Let's Encrypt was
\* delivered while names of an earlier certificate are in the buffer.
C15_Witness ==
    /\ ARGS.skip_lets_encrypt
    /\ cs_pc = "skipped"
    /\ queue # <<>>
    /\ Range(queue) \subseteq Range(checked_domains)

\* C16: the number of workers started is the value of -t/--threads, and 5
\* when the option is absent or is no positive integer.
C16_WorkerCount ==
    started =>
        Cardinality(DOMAIN w_pc) =
            IF /\ ARGS.argv_threads.given
               /\ ARGS.argv_threads.int
               /\ ARGS.argv_threads.value > 0
            THEN ARGS.argv_threads.value
            ELSE 5

\* C17: checked_domains only grows: every step keeps its entries in place,
\* and adds at most one, at the end, in a call of put from the feed thread,
\* a name that was not in it, so neither waiting nor withdrawn nor
\* processed before.
C17_SeenSetGrows ==
    [][/\ Len(checked_domains') >= Len(checked_domains)
       /\ SubSeq(checked_domains', 1, Len(checked_domains)) = checked_domains
       /\ checked_domains' # checked_domains
            => /\ cs_pc = "process"
               /\ Len(checked_domains') = Len(checked_domains) + 1
               /\ checked_domains'[Len(checked_domains')]
                    \notin Range(checked_domains) \cup Range(taken) \cup Range(queue)
       /\ Range(taken') \subseteq Range(checked_domains')]_vars

\* C17 witness: a name that was withdrawn and processed is offered again and
\* found in checked_domains.
C17_Witness ==
    /\ cs_pc = "seen"
    /\ cs_domain \in Range(taken)
    /\ cs_domain \in Range(checked_domains)
    /\ \A w \in Workers : w_pc[w] \in {"get", "locked", "take"}

\* CertStreamThread is inside run_forever(): waiting for a message or in
\* process() with one
Receiving == cs_pc \in {"recv", "heartbeat", "skipped", "process", "put", "seen"}

\* C18: CertStreamThread never ends: it is always about to subscribe,
\* receiving, or backing off; when run_forever() returns it backs off, after
\* the backoff it subscribes, and a thread that is backing off is receiving
\* again later.
C18_FeedNeverStops ==
    /\ [](cs_pc = "connect" \/ Receiving \/ cs_pc = "backoff")
    /\ [][/\ (Receiving /\ ~Receiving') => (cs_pc = "recv" /\ cs_pc' = "backoff")
          /\ (cs_pc = "backoff" /\ cs_pc' # "backoff") => cs_pc' = "connect"
          /\ (cs_pc = "connect" /\ cs_pc' # "connect") => cs_pc' = "recv"]_vars
    /\ (cs_pc = "backoff") ~> (cs_pc = "recv")

\* C18 witness: the feed disconnected after it had delivered messages, and
\* the thread is backing off.
C18_Witness ==
    /\ cs_pc = "backoff"
    /\ events_left < MaxEvents
    /\ checked_domains # <<>>

\* worker w holds a withdrawn name and is processing it
Busy(w) == w_pc[w] \in {"resolve", "resolved", "log", "log_store"}

\* C19: under fair scheduling every name admitted to checked_domains is
\* withdrawn, a worker that holds a name finishes with it and is back at
\* get(), and an offer waiting on the full buffer returns; a worker in
\* super().get() does not hold DomainQueue.lock.
C19_Progress ==
    /\ [](\A w \in Workers : w_pc[w] = "take" => w \notin lock)
    /\ \A d \in FeedDomains :
            (d \in Range(checked_domains)) ~> (d \in Range(taken))
    /\ \A w \in Workers : Busy(w) ~> (w_pc[w] = "get")
    /\ (cs_pc = "put") ~> (cs_pc # "put")

\* C19 witness: more names than the buffer holds were admitted, all were
\* withdrawn and processed, and the workers wait on the empty buffer.
C19_Witness ==
    /\ Len(checked_domains) > QUEUE_SIZE
    /\ taken = checked_domains
    /\ lock = {}
    /\ \A w \in Workers : w_pc[w] = "take"

\* the domain name of a logged line: the line up to its first ","
LoggedName(line) ==
    IF "," \in Range(line)
    THEN SubSeq(line, 1, (CHOOSE i \in 1..Len(line) :
                            /\ line[i] = ","
                            /\ \A j \in 1..(i - 1) : line[j] # ",") - 1)
    ELSE line

\* C20: no two Findings of a run carry the same domain name.
C20_NoDuplicateFindings ==
    \A i, j \in 1..Len(findings) :
        LoggedName(findings[i]) = LoggedName(findings[j]) => i = j

====
